---- MODULE Spec2Model ----
(***************************************************************************)
(* Model of the taxonomy admin (src/taxonomy.py): the Node model, the      *)
(* NodeForm that maps a "choose a parent" form onto tree operations, the   *)
(* NodeButtonHelper of the listing and the admin views that drive them.    *)
(*                                                                         *)
(* The tree itself is kept by treebeard's MP_Node, which is not part of    *)
(* the repository.  It is modelled by its API contract: the rows of the    *)
(* table, and for every node the sequence of its children in path order    *)
(* (children[None] are the nodes of depth 1).  add_root/add_child and      *)
(* move(.., 'sorted-child') insert in front of the first sibling whose     *)
(* node_order_by key is greater, delete removes the node with its branch,  *)
(* and a move of a node under itself or under one of its descendants is    *)
(* refused and leaves the tree as it was.                                  *)
(***************************************************************************)
EXTENDS Integers, Sequences, FiniteSets, TLC

VARIABLES
    node,       \* the table: pk -> [name, aliases, node_order_index]
    children,   \* pk or None -> the children of that node, in path order
    nextId,     \* the next primary key the database hands out
    last,       \* the last request: [op, pk, parent, result]
    vname,      \* the value handed to the name validators
    vresult     \* what the name validators said of vname

vars == <<node, children, nextId, last, vname, vresult>>

----------------------------------------------------------------------------
(* Bounds *)

MaxNodes == 3       \* primary keys 1..MaxNodes are handed out
MaxNameLen == 6     \* the validators are run on every name up to this length

(* Program constants *)

NameMinLength == 5      \* MinLengthValidator(5)
NameMaxLength == 50     \* max_length=50
DefaultOrderIndex == 0  \* node_order_index default

None == 0
Pks == 1..MaxNodes

----------------------------------------------------------------------------
(* Characters are their code points, names are sequences of them. *)

LF == 10
SPACE == 32
AMP == 38
UNDERSCORE == 95

IsLetter(c) == (c >= 65 /\ c <= 90) \/ (c >= 97 /\ c <= 122)
IsDigit(c) == c >= 48 /\ c <= 57
IsWhitespace(c) == c = SPACE \/ (c >= 9 /\ c <= 13)

\* \w of a str pattern, on the ASCII range
IsWordChar(c) == IsLetter(c) \/ IsDigit(c) \/ c = UNDERSCORE

\* [a-zA-Z &]
IsBodyChar(c) == IsLetter(c) \/ c = SPACE \/ c = AMP

\* regex.search('^[\w][a-zA-Z &]+$', s): $ also matches in front of one
\* trailing newline.
RegexMatchesUpTo(s, n) ==
    /\ n >= 2
    /\ IsWordChar(s[1])
    /\ \A i \in 2..n : IsBodyChar(s[i])

node_name_validator(s) ==
    \/ RegexMatchesUpTo(s, Len(s))
    \/ Len(s) >= 1 /\ s[Len(s)] = LF /\ RegexMatchesUpTo(s, Len(s) - 1)

MinLengthValidator(s) == Len(s) >= NameMinLength

MaxLengthValidator(s) == Len(s) <= NameMaxLength

\* validators=[node_name_validator, MinLengthValidator(5)] and max_length
NameValidators(s) ==
    node_name_validator(s) /\ MinLengthValidator(s) /\ MaxLengthValidator(s)

----------------------------------------------------------------------------
(* The tree, as treebeard's MP_Node keeps it for this model. *)

Range(f) == {f[i] : i \in DOMAIN f}

\* name__gt of the database, in the binary collation: code point order
RECURSIVE StrGreater(_, _)
StrGreater(a, b) ==
    IF a = <<>> THEN FALSE
    ELSE IF b = <<>> THEN TRUE
    ELSE IF a[1] # b[1] THEN a[1] > b[1]
    ELSE StrGreater(Tail(a), Tail(b))

\* node_order_by = ['node_order_index', 'name']: row a sorts after row b
KeyGreater(a, b) ==
    \/ a.node_order_index > b.node_order_index
    \/ a.node_order_index = b.node_order_index /\ StrGreater(a.name, b.name)

\* The place treebeard's 'sorted-sibling' gives a row among siblings sibs:
\* in front of the first sibling whose key is greater, else at the end.
SortedPos(rows, sibs, rec) ==
    LET greater == {i \in 1..Len(sibs) : KeyGreater(rows[sibs[i]], rec)}
    IN IF greater = {} THEN Len(sibs) + 1
       ELSE CHOOSE i \in greater : \A j \in greater : i <= j

InsertAt(s, i, x) == SubSeq(s, 1, i - 1) \o <<x>> \o SubSeq(s, i, Len(s))

Without(s, x) == SelectSeq(s, LAMBDA y : y # x)

\* get_parent(): the node whose children hold pk, None for a node of depth 1
ParentIn(ch, pk) ==
    IF \E p \in DOMAIN ch : p # None /\ pk \in Range(ch[p])
    THEN CHOOSE p \in DOMAIN ch : p # None /\ pk \in Range(ch[p])
    ELSE None

get_parent(pk) == ParentIn(children, pk)

RECURSIVE DepthIn(_, _)
DepthIn(ch, pk) ==
    IF ParentIn(ch, pk) = None THEN 1 ELSE 1 + DepthIn(ch, ParentIn(ch, pk))

get_depth(pk) == DepthIn(children, pk)

\* is_root() testing for depth 0, which no node has
is_root_depth0(pk) == pk \in DOMAIN node /\ get_depth(pk) = 0

\* is_root(): depth == 1; a new instance has no depth yet
is_root(pk) == pk \in DOMAIN node /\ get_depth(pk) = 1

\* the nodes of the branch under pk, pk not included
RECURSIVE DescendantsIn(_, _)
DescendantsIn(ch, pk) ==
    Range(ch[pk]) \cup UNION {DescendantsIn(ch, c) : c \in Range(ch[pk])}

\* Node.objects.count()
count == Cardinality(DOMAIN node)

\* A tree state is [node |-> the rows, children |-> the child sequences].
Tree == [node |-> node, children |-> children]

\* the row of a new instance
NewRow(nm, al) ==
    [name |-> nm, aliases |-> al, node_order_index |-> DefaultOrderIndex]

\* Node.add_root(instance=..): a node of depth 1, sorted among the roots
add_root(t, pk, rec) ==
    [node |-> [p \in DOMAIN t.node \cup {pk} |->
                  IF p = pk THEN rec ELSE t.node[p]],
     children |-> [p \in DOMAIN t.children \cup {pk} |->
                  IF p = pk THEN <<>>
                  ELSE IF p = None
                       THEN InsertAt(t.children[None],
                                     SortedPos(t.node, t.children[None], rec), pk)
                       ELSE t.children[p]]]

\* parent.add_child(instance=..): sorted among the children of parent
add_child(t, parent, pk, rec) ==
    [node |-> [p \in DOMAIN t.node \cup {pk} |->
                  IF p = pk THEN rec ELSE t.node[p]],
     children |-> [p \in DOMAIN t.children \cup {pk} |->
                  IF p = pk THEN <<>>
                  ELSE IF p = parent
                       THEN InsertAt(t.children[parent],
                                     SortedPos(t.node, t.children[parent], rec), pk)
                       ELSE t.children[p]]]

\* instance.save() of an existing node: the editable fields are written
save_fields(t, pk, nm, al) ==
    [t EXCEPT !.node[pk].name = nm, !.node[pk].aliases = al]

\* whether treebeard carries out instance.move(target, pos='sorted-child')
move_allowed(t, pk, target) ==
    target # pk /\ target \notin DescendantsIn(t.children, pk)

\* What the request sees of a move that is not carried out: under a
\* descendant treebeard raises InvalidMoveToDescendant; under the node itself
\* it raises or returns without a word.
move_refused(pk, target) ==
    IF target = pk THEN {"InvalidMove", "ok"} ELSE {"InvalidMove"}

\* instance.move(target, pos='sorted-child'), when it is carried out
move(t, pk, target) ==
    LET old == ParentIn(t.children, pk)
        out == [t.children EXCEPT ![old] = Without(@, pk)]
    IN [t EXCEPT !.children =
            [out EXCEPT ![target] =
                InsertAt(@, SortedPos(t.node, @, t.node[pk]), pk)]]

\* MP_Node.delete(): the node goes with its branch
delete_branch(t, pk) ==
    LET gone == {pk} \cup DescendantsIn(t.children, pk)
        keep == DOMAIN t.node \ gone
    IN [node |-> [p \in keep |-> t.node[p]],
        children |-> [p \in keep \cup {None} |->
                         SelectSeq(t.children[p], LAMBDA c : c \notin gone)]]

----------------------------------------------------------------------------
(* Node.delete and the listing's buttons *)

\* Node.delete() without its check for the root
delete_noRootCheck(pk) ==
    [tree |-> delete_branch(Tree, pk), result |-> "ok"]

\* Node.delete(): refused on the root, else treebeard's delete
delete(pk) ==
    IF is_root(pk)
    THEN [tree |-> Tree, result |-> "PermissionDenied"]
    ELSE [tree |-> delete_branch(Tree, pk), result |-> "ok"]

\* delete_button as ButtonHelper has it: a button on every row
delete_button_always(pk) == {"delete"}

\* NodeButtonHelper.delete_button: no button on the root's row
delete_button(pk) == IF is_root(pk) THEN {} ELSE {"delete"}

\* NodeButtonHelper.get_buttons_for_obj: the row's buttons and 'add child'
get_buttons_for_obj(pk) ==
    {"edit", "inspect"} \cup delete_button(pk) \cup {"add_child"}

----------------------------------------------------------------------------
(* NodeForm.  inst is the pk of the instance, None for a new one. *)

RECURSIVE StripLeft(_)
StripLeft(s) ==
    IF s # <<>> /\ IsWhitespace(s[1]) THEN StripLeft(Tail(s)) ELSE s

RECURSIVE StripRight(_)
StripRight(s) ==
    IF s # <<>> /\ IsWhitespace(s[Len(s)])
    THEN StripRight(SubSeq(s, 1, Len(s) - 1)) ELSE s

\* the form's CharField strips the posted name before it is validated
Strip(s) == StripRight(StripLeft(s))

\* NodeForm.__init__: the parent field is disabled and not required
parent_disabled(inst) == is_root(inst) \/ count = 0

\* cleaned_data['parent']: a disabled field keeps its initial, which is empty
cleaned_parent(inst, par) == IF parent_disabled(inst) THEN None ELSE par

\* the parent field with required=False: an empty parent passes
parent_valid_notRequired(inst, par) ==
    parent_disabled(inst) \/ par \in DOMAIN node \/ par = None

\* the parent field: required, and one of Node.objects.all()
parent_valid(inst, par) == parent_disabled(inst) \/ par \in DOMAIN node

\* the name field without unique=True
name_unique_off(inst, nm) == TRUE

\* unique=True
name_unique(inst, nm) == \A p \in DOMAIN node \ {inst} : node[p].name # nm

\* form.errors, by error code.  A name is checked for uniqueness only when
\* its validators passed.
form_errors(inst, nm, par) ==
    (IF ~NameValidators(Strip(nm)) THEN {"invalid_name"}
     ELSE IF ~name_unique(inst, Strip(nm)) THEN {"unique"} ELSE {})
    \cup (IF parent_valid(inst, par) THEN {} ELSE {"invalid_parent"})

is_valid(inst, nm, par) == form_errors(inst, nm, par) = {}

\* save() with the test for an empty table inverted: the first node goes to
\* parent.add_child with no parent, a later one to add_root
save_new_inverted(newpk, nm, al, parent) ==
    IF count # 0
    THEN [tree |-> add_root(Tree, newpk, NewRow(nm, al)), result |-> "ok"]
    ELSE [tree |-> Tree, result |-> "AttributeError"]

\* NodeForm.save(commit=True), creating: the outcome [tree, result]
save_new(newpk, nm, al, parent) ==
    IF count = 0
    THEN [tree |-> add_root(Tree, newpk, NewRow(nm, al)), result |-> "ok"]
    ELSE [tree |-> add_child(Tree, parent, newpk, NewRow(nm, al)),
          result |-> "ok"]

\* save() moving the node whether or not the selected parent differs
save_existing_alwaysMoves(inst, nm, al, parent) ==
    LET saved == save_fields(Tree, inst, nm, al)
    IN IF move_allowed(saved, inst, parent)
       THEN {[tree |-> move(saved, inst, parent), result |-> "ok"]}
       ELSE {[tree |-> saved, result |-> r] : r \in move_refused(inst, parent)}

\* NodeForm.save(commit=True), editing: the outcomes [tree, result].  The
\* fields are written before the move, and stay written when it is refused.
save_existing(inst, nm, al, parent) ==
    LET saved == save_fields(Tree, inst, nm, al)
    IN IF get_parent(inst) # parent
       THEN IF move_allowed(saved, inst, parent)
            THEN {[tree |-> move(saved, inst, parent), result |-> "ok"]}
            ELSE {[tree |-> saved, result |-> r] : r \in move_refused(inst, parent)}
       ELSE {[tree |-> saved, result |-> "ok"]}

----------------------------------------------------------------------------
(* Inputs *)

Alpha == <<65, 108, 112, 104, 97>>
Bravo == <<66, 114, 97, 118, 111>>
Delta == <<68, 101, 108, 116, 97>>
Hotel == <<32, 72, 111, 116, 101, 108>>  \* " Hotel", posted with a space
Al == <<65, 108>>

\* the names a request may post
FormNames == {Alpha, Bravo, Delta, Hotel, Al}

AliasInputs == {"aka"}

\* what a request may post as parent: nothing, or any pk
ParentInputs == {None} \cup Pks

\* the characters the validators are tried on: a Z 1 _ space &
Alphabet == {97, 90, 49, UNDERSCORE, SPACE, AMP}

NameInputs == UNION {[1..k -> Alphabet] : k \in 0..MaxNameLen}

NoButtons == <<>>

Request(op, pk, par, res) ==
    [op |-> op, pk |-> pk, parent |-> par, result |-> res, errors |-> {},
     buttons |-> NoButtons]

Invalid(op, pk, par, errs) ==
    [Request(op, pk, par, "invalid") EXCEPT !.errors = errs]

----------------------------------------------------------------------------
(* The admin's views *)

Init ==
    /\ node = <<>>
    /\ children = [p \in {None} |-> <<>>]
    /\ nextId = 1
    /\ last = Request("none", None, None, "none")
    /\ vname = <<>>
    /\ vresult = "none"

\* CreateView: the form of a new instance, posted
CreateView(nm, al, par) ==
    /\ IF is_valid(None, nm, par)
       THEN /\ nextId <= MaxNodes
            /\ LET o == save_new(nextId, Strip(nm), al, cleaned_parent(None, par))
               IN /\ node' = o.tree.node
                  /\ children' = o.tree.children
                  /\ last' = Request("create", nextId, par, o.result)
            /\ nextId' = nextId + 1
       ELSE /\ last' = Invalid("create", None, par, form_errors(None, nm, par))
            /\ UNCHANGED <<node, children, nextId>>
    /\ UNCHANGED <<vname, vresult>>

\* AddChildNodeViewClass: CreateView opened from the row of parent_pk, with
\* the parent field pre-populated (get_initial) and posted as it stands
AddChildView(parent_pk, nm, al) ==
    /\ parent_pk \in DOMAIN node
    /\ CreateView(nm, al, parent_pk)

\* EditView: the form of an existing instance, posted
EditView(pk, nm, al, par) ==
    /\ pk \in DOMAIN node
    /\ IF is_valid(pk, nm, par)
       THEN \E o \in save_existing(pk, Strip(nm), al, cleaned_parent(pk, par)) :
               /\ node' = o.tree.node
               /\ children' = o.tree.children
               /\ last' = Request("edit", pk, par, o.result)
       ELSE /\ last' = Invalid("edit", pk, par, form_errors(pk, nm, par))
            /\ UNCHANGED <<node, children>>
    /\ UNCHANGED <<nextId, vname, vresult>>

\* DeleteView: instance.delete()
DeleteView(pk) ==
    /\ pk \in DOMAIN node
    /\ LET o == delete(pk)
       IN /\ node' = o.tree.node
          /\ children' = o.tree.children
          /\ last' = Request("delete", pk, None, o.result)
    /\ UNCHANGED <<nextId, vname, vresult>>

\* IndexView: the listing, a row of buttons for every node
IndexView ==
    /\ last' = [Request("list", None, None, "ok") EXCEPT
                   !.buttons = [pk \in DOMAIN node |-> get_buttons_for_obj(pk)]]
    /\ UNCHANGED <<node, children, nextId, vname, vresult>>

Next ==
    \/ \E nm \in FormNames, al \in AliasInputs, par \in ParentInputs :
          CreateView(nm, al, par)
    \/ \E pp \in Pks, nm \in FormNames, al \in AliasInputs :
          AddChildView(pp, nm, al)
    \/ \E pk \in Pks, nm \in FormNames, al \in AliasInputs, par \in ParentInputs :
          EditView(pk, nm, al, par)
    \/ \E pk \in Pks : DeleteView(pk)
    \/ IndexView

Spec == Init /\ [][Next]_vars

----------------------------------------------------------------------------
(* The name validators on their own *)

InitName ==
    /\ node = <<>>
    /\ children = [p \in {None} |-> <<>>]
    /\ nextId = 1
    /\ last = Request("none", None, None, "none")
    /\ vname \in NameInputs
    /\ vresult = "none"

\* Field.run_validators on the name
ValidateName ==
    /\ vresult = "none"
    /\ vresult' = IF NameValidators(vname) THEN "accepted" ELSE "rejected"
    /\ UNCHANGED <<node, children, nextId, last, vname>>

NextName == ValidateName

SpecName == InitName /\ [][NextName]_vars

----------------------------------------------------------------------------
(* Properties *)

\* the nodes without a parent
Roots == {pk \in DOMAIN node : get_parent(pk) = None}

\* the place of pk in the sequence s
IndexOf(s, pk) == CHOOSE i \in 1..Len(s) : s[i] = pk

\* C1: Node.delete() on the root fails with a permission error and leaves
\* the table and the tree as they were; on any other node it succeeds and the
\* node is gone from the table and from every list of children.
C1_DeleteRootRefusedElseRemoved ==
    [][last'.op = "delete" =>
        IF ParentIn(children, last'.pk) = None
        THEN /\ last'.result = "PermissionDenied"
             /\ node' = node
             /\ children' = children
        ELSE /\ last'.result = "ok"
             /\ last'.pk \notin DOMAIN node'
             /\ \A p \in DOMAIN children' : last'.pk \notin Range(children'[p])]_vars

\* a delete of the root was refused while the root had children
C1_Witness ==
    /\ last.op = "delete"
    /\ last.result = "PermissionDenied"
    /\ last.pk \in Roots
    /\ count >= 2

\* C2: a create posted while the table is empty and passing validation saves
\* the new node as the root, whatever parent the request posted.
C2_FirstNodeBecomesRoot ==
    [][(last'.op = "create" /\ last'.result # "invalid" /\ DOMAIN node = {}) =>
        /\ last'.result = "ok"
        /\ DOMAIN node' = {last'.pk}
        /\ children'[None] = <<last'.pk>>
        /\ ParentIn(children', last'.pk) = None]_vars

\* the first node was created by a request that posted a parent
C2_Witness ==
    /\ last.op = "create"
    /\ last.result = "ok"
    /\ last.parent # None
    /\ DOMAIN node = {last.pk}
    /\ last.pk \in Roots

\* C3: a create posted while nodes exist is rejected unless it selects an
\* existing node as parent; when it is saved the new node is a child of the
\* selected parent and of no other node, and the roots are as before.
C3_LaterNodeBecomesChildOfSelected ==
    [][(last'.op = "create" /\ DOMAIN node # {}) =>
        /\ last'.parent \notin DOMAIN node =>
              last'.result = "invalid" /\ "invalid_parent" \in last'.errors
        /\ last'.result # "invalid" =>
              /\ last'.result = "ok"
              /\ last'.pk \in DOMAIN node' \ DOMAIN node
              /\ last'.pk \in Range(children'[last'.parent])
              /\ \A p \in DOMAIN children' \ {last'.parent} :
                    last'.pk \notin Range(children'[p])
              /\ children'[None] = children[None]]_vars

\* a node was created under a parent that is not the root
C3_Witness ==
    /\ last.op = "create"
    /\ last.result = "ok"
    /\ last.parent \in DOMAIN node \ Roots
    /\ get_parent(last.pk) = last.parent

\* pk sits where 'sorted-child' puts it among the children of its parent
AtSortedPos(rows, ch, pk) ==
    LET sibs == ch[ParentIn(ch, pk)]
    IN IndexOf(sibs, pk) = SortedPos(rows, Without(sibs, pk), rows[pk])

\* C4: an edit of a node that selects a parent other than the node's parent
\* (any node of the choice field) leaves the node a child of the selected
\* parent, at its sorted place among that parent's children.
C4_EditMovesUnderSelectedParent ==
    [][(/\ last'.op = "edit"
        /\ last'.result # "invalid"
        /\ ParentIn(children, last'.pk) # None
        /\ last'.parent # ParentIn(children, last'.pk)) =>
        /\ ParentIn(children', last'.pk) = last'.parent
        /\ AtSortedPos(node', children', last'.pk)]_vars

\* C5: the name validators accept a name only if it consists solely of
\* letters, spaces and '&' and has at least 5 characters.
C5_AcceptedNamesAreLettersSpacesAmp ==
    vresult = "accepted" =>
        /\ \A i \in 1..Len(vname) : IsBodyChar(vname[i])
        /\ Len(vname) >= 5

\* C6: at most one node has no parent, and from the first create on the
\* root is there and is the node that was created first.
C6_ExactlyOneRoot ==
    /\ Cardinality(Roots) <= 1
    /\ Len(children[None]) <= 1
    /\ nextId > 1 => children[None] = <<1>> /\ Roots = {1}

\* the root was edited by a request that posted another node as parent
C6_Witness ==
    /\ last.op = "edit"
    /\ last.result = "ok"
    /\ last.pk \in Roots
    /\ last.parent \in DOMAIN node \ {last.pk}

\* C7: the children of every node are in the order of their
\* (node_order_index, name) keys.
C7_SiblingsSortedByKey ==
    \A p \in DOMAIN children :
        \A i, j \in 1..Len(children[p]) :
            i < j => ~KeyGreater(node[children[p][i]], node[children[p][j]])

\* C8: the listing offers the delete action on a row exactly when the node
\* is not the root, and only on nodes whose Node.delete() succeeds.
C8_DeleteOfferedIffNotRoot ==
    last.op = "list" =>
        /\ DOMAIN last.buttons = DOMAIN node
        /\ \A pk \in DOMAIN node :
              /\ "delete" \in last.buttons[pk] <=> pk \notin Roots
              /\ "delete" \in last.buttons[pk] => delete(pk).result = "ok"

\* a listing of the root and of a node under it
C8_Witness ==
    /\ last.op = "list"
    /\ \E pk \in DOMAIN node : "delete" \in last.buttons[pk]
    /\ \E pk \in DOMAIN node : "delete" \notin last.buttons[pk]

\* C9: no two nodes have the same name.
C9_NamesUnique ==
    \A p, q \in DOMAIN node : p # q => node[p].name # node[q].name

\* a request was rejected because its name is the name of another node
C9_Witness ==
    /\ last.result = "invalid"
    /\ "unique" \in last.errors
    /\ count >= 2

\* C10: an edit whose selected parent is the node's parent (for the root:
\* none) writes the node's name and aliases and nothing else: no list of
\* children changes, and no other row.
C10_EditSameParentKeepsTree ==
    [][(/\ last'.op = "edit"
        /\ last'.result # "invalid"
        /\ \/ ParentIn(children, last'.pk) = None
           \/ last'.parent = ParentIn(children, last'.pk)) =>
        /\ last'.result = "ok"
        /\ children' = children
        /\ DOMAIN node' = DOMAIN node
        /\ \A q \in DOMAIN node \ {last'.pk} : node'[q] = node[q]
        /\ node'[last'.pk].node_order_index = node[last'.pk].node_order_index
        /\ DepthIn(children', last'.pk) = DepthIn(children, last'.pk)]_vars

\* a node with a sibling was renamed under its own parent
C10_Witness ==
    /\ last.op = "edit"
    /\ last.result = "ok"
    /\ last.pk \notin Roots
    /\ last.parent = get_parent(last.pk)
    /\ Len(children[last.parent]) >= 2
    /\ ~C7_SiblingsSortedByKey

====
